---- MODULE Spec2Model ----
(***************************************************************************)
(* Carbon footprint calculator (src/app.py): the calculation pass, the     *)
(* suggestion rules and the SQLite run history, as a state machine of the  *)
(* page renders of two browser sessions sharing one history file.          *)
(*                                                                         *)
(* Numbers.  The script computes in floats.  Here every entered quantity   *)
(* is an integer number of tenths (0.3 kg is 3, 80 km is 800) and every    *)
(* factor an integer number of thousandths (0.251 is 251), so every kg     *)
(* value is an integer number of 1/10000 kg and the formulas are computed  *)
(* exactly as written, term by term, in the order the script adds them.    *)
(***************************************************************************)
EXTENDS Integers, Sequences, FiniteSets, TLC

VARIABLES
    db,          \* footprint_history.db: [exists, rows, seq]
    lock,        \* the session holding the file's write lock, or NoSession
    pc,          \* pc[s]: where session s's script run stands
    inputs,      \* inputs[s]: the sidebar widgets' values of the run
    clicked,     \* clicked[s]: what c1.button("Save this run") returned
    totals,      \* totals[s]: totals_payload of the run
    conn,        \* conn[s]: the sqlite3 connection the run holds
    pending,     \* pending[s]: the row the run's INSERT wrote, or NoRow
    ret,         \* ret[s]: what save_run returned, or NotCalled
    history_df,  \* history_df[s]: what load_runs returned, or NoFrame
    hist_df,     \* hist_df[s]: the parsed listing handed to st.dataframe
    suggestions, \* suggestions[s]: the advisories written
    shown,       \* shown[s]: the page sections the run has rendered
    exc,         \* exc[s]: the exception that ended the run, or NoExc
    lastList     \* the frame the latest load_runs returned, no INSERT committed since

vars == <<db, lock, pc, inputs, clicked, totals, conn, pending, ret,
          history_df, hist_df, suggestions, shown, exc, lastList>>

----------------------------------------------------------------------------
(* Bounds of the model *)

\* Rows the history may hold before the Save button is no longer clicked.
MaxRuns == 2

\* datetime.utcnow() is read as one of 1..MaxTime.
MaxTime == 2

Sessions == {"s1", "s2"}

----------------------------------------------------------------------------
(* Emission factors and grid factors, in thousandths *)

EMISSION_FACTORS ==
    [mile_driven |-> 404, km_driven |-> 251, beef_kg |-> 27000,
     chicken_kg |-> 6900, flight_km |-> 115, bus_km |-> 89,
     shopping_usd |-> 600]

NoFactor == "None"

COUNTRY_GRID_FACTORS ==
    [Global |-> 920, Nigeria |-> 800, Custom |-> NoFactor]

----------------------------------------------------------------------------
(* Sidebar inputs and unit normalization *)

\* Both distance variables exist whatever the unit; the one not shown is 0.
miles_per_week(i) == IF i.distance_unit = "miles" THEN i.distance ELSE 0

km_per_week(i) == IF i.distance_unit = "miles" THEN 0 ELSE i.distance

car_per_week_kg(i) ==
    IF i.distance_unit = "miles"
    THEN miles_per_week(i) * EMISSION_FACTORS.mile_driven
    ELSE km_per_week(i) * EMISSION_FACTORS.km_driven

selected_grid_factor(i) ==
    IF i.country_choice = "Custom"
    THEN i.custom_grid
    ELSE COUNTRY_GRID_FACTORS[i.country_choice]

\* spend and fx_rate are in tenths: the quotient is brought back to tenths.
spend_usd(i) ==
    IF i.currency = "USD" THEN i.spend ELSE (i.spend * 10) \div i.fx_rate

----------------------------------------------------------------------------
(* Calculations *)

transport_total(i) ==
    car_per_week_kg(i) * 52
    + i.flight_km_per_year * EMISSION_FACTORS.flight_km
    + i.bus_km_per_week * 52 * EMISSION_FACTORS.bus_km

electricity_total(i) == i.kwh_per_month * 12 * selected_grid_factor(i)

diet_total(i) ==
    i.beef_kg_per_week * 52 * EMISSION_FACTORS.beef_kg
    + i.chicken_kg_per_week * 52 * EMISSION_FACTORS.chicken_kg

shopping_total(i) == spend_usd(i) * 12 * EMISSION_FACTORS.shopping_usd

\* A mutant of grand_total_kg: the shopping term is left out.
grand_total_kg_dropping_shopping(i) ==
    transport_total(i) + electricity_total(i) + diet_total(i)

grand_total_kg(i) ==
    transport_total(i) + electricity_total(i) + diet_total(i)
    + shopping_total(i)

\* grand_total_kg / 1000, in tonnes: kept in 1/10000000 of a tonne, the unit
\* in which the division by 1000 is exact.
grand_total_t(i) == grand_total_kg(i)

inputs_payload(i) ==
    [distance_unit |-> i.distance_unit,
     car_per_week_kg |-> car_per_week_kg(i),
     flight_km_per_year |-> i.flight_km_per_year,
     bus_km_per_week |-> i.bus_km_per_week,
     grid_factor_choice |-> i.country_choice,
     selected_grid_factor |-> selected_grid_factor(i),
     kwh_per_month |-> i.kwh_per_month,
     beef_kg_per_week |-> i.beef_kg_per_week,
     chicken_kg_per_week |-> i.chicken_kg_per_week,
     currency |-> i.currency,
     spend_usd |-> spend_usd(i)]

totals_payload(i) ==
    [transport_total |-> transport_total(i),
     electricity_total |-> electricity_total(i),
     diet_total |-> diet_total(i),
     shopping_total |-> shopping_total(i),
     grand_total_kg |-> grand_total_kg(i),
     grand_total_t |-> grand_total_t(i)]

----------------------------------------------------------------------------
(* json.dumps and json.loads *)

\* A JSON text: an object's members in the order json.dumps writes them (the
\* dict's insertion order), or a text that is no JSON at all (valid = FALSE).
INPUT_KEYS ==
    <<"distance_unit", "car_per_week_kg", "flight_km_per_year",
      "bus_km_per_week", "grid_factor_choice", "selected_grid_factor",
      "kwh_per_month", "beef_kg_per_week", "chicken_kg_per_week",
      "currency", "spend_usd">>

TOTAL_KEYS ==
    <<"transport_total", "electricity_total", "diet_total",
      "shopping_total", "grand_total_kg", "grand_total_t">>

json_dumps(d, keys) ==
    [valid |-> TRUE,
     members |-> [j \in 1..Len(keys) |-> <<keys[j], d[keys[j]]>>]]

JSONDecodeError == [error |-> "JSONDecodeError"]

\* The dict json.loads builds: a repeated name keeps its last value.
json_loads(t) ==
    IF ~t.valid
    THEN JSONDecodeError
    ELSE LET names == {t.members[j][1] : j \in 1..Len(t.members)}
             last(k) == CHOOSE j \in 1..Len(t.members) :
                           /\ t.members[j][1] = k
                           /\ \A m \in 1..Len(t.members) :
                                 t.members[m][1] = k => m <= j
         IN  [k \in names |-> t.members[last(k)][2]]

----------------------------------------------------------------------------
(* Suggestions *)

ADVICE_BEEF == "Reduce beef intake or swap with chicken/plant-based options."

ADVICE_CAR ==
    "Combine trips, carpool, or consider public transport for some journeys."

ADVICE_POWER ==
    "Improve home efficiency: LED bulbs, efficient appliances, and switch off standby loads."

ADVICE_FLIGHT ==
    "Consider train alternatives for short-haul or offset essential flights."

ADVICE_NONE ==
    "Nice balance of activities - keep tracking to find small improvements."

\* A mutant of Suggestions: the 160 threshold is applied whatever the unit.
SuggestionsOneDistanceThreshold(i) ==
    LET s1 == IF i.beef_kg_per_week > 5 THEN <<ADVICE_BEEF>> ELSE <<>>
        s2 == IF miles_per_week(i) + km_per_week(i) > 1600
              THEN Append(s1, ADVICE_CAR) ELSE s1
        s3 == IF i.kwh_per_month > 2000 THEN Append(s2, ADVICE_POWER) ELSE s2
        s4 == IF i.flight_km_per_year > 30000
              THEN Append(s3, ADVICE_FLIGHT) ELSE s3
    IN  IF s4 = <<>> THEN <<ADVICE_NONE>> ELSE s4

\* Thresholds are in tenths, like the quantities: 0.5 kg, 100 miles, 160 km,
\* 200 kWh, 3000 km.
Suggestions(i) ==
    LET s1 == IF i.beef_kg_per_week > 5 THEN <<ADVICE_BEEF>> ELSE <<>>
        s2 == IF i.distance_unit = "miles"
              THEN IF miles_per_week(i) > 1000
                   THEN Append(s1, ADVICE_CAR) ELSE s1
              ELSE IF km_per_week(i) > 1600
                   THEN Append(s1, ADVICE_CAR) ELSE s1
        s3 == IF i.kwh_per_month > 2000 THEN Append(s2, ADVICE_POWER) ELSE s2
        s4 == IF i.flight_km_per_year > 30000
              THEN Append(s3, ADVICE_FLIGHT) ELSE s3
    IN  IF s4 = <<>> THEN <<ADVICE_NONE>> ELSE s4

----------------------------------------------------------------------------
(* The history file: table runs, its AUTOINCREMENT counter, its write lock *)

NoSession == "none"

\* The file before the first init_db: no table runs.
NoTable == [exists |-> FALSE, rows |-> <<>>, seq |-> 0]

EmptyTable == [exists |-> TRUE, rows |-> <<>>, seq |-> 0]

\* A mutant of CreateTableIfNotExists: the table is created anew each time.
CreateTableAnew(d) == EmptyTable

\* CREATE TABLE IF NOT EXISTS runs (...), committed.
CreateTableIfNotExists(d) == IF d.exists THEN d ELSE EmptyTable

\* id INTEGER PRIMARY KEY AUTOINCREMENT: one more than the largest id the table
\* has ever held (sqlite_sequence).
NextRowId(d) == d.seq + 1

\* A mutant of MayWrite: the INSERT takes no lock.
MayWriteUnlocked(s) == TRUE

\* A connection may start writing when no other connection holds the file's
\* write lock; it holds the lock from its INSERT to its commit.
MayWrite(s) == lock = NoSession

InsertRow(d, row) ==
    [d EXCEPT !.rows = Append(@, row), !.seq = IF row.id > @ THEN row.id ELSE @]

\* A mutant of OrderByIdDesc: ORDER BY id, ascending.
RECURSIVE OrderByIdAsc(_)
OrderByIdAsc(rows) ==
    IF rows = <<>>
    THEN <<>>
    ELSE LET m == CHOOSE j \in 1..Len(rows) :
                     \A k \in 1..Len(rows) : rows[j].id <= rows[k].id
             rest == [k \in 1..(Len(rows) - 1) |->
                         IF k < m THEN rows[k] ELSE rows[k + 1]]
         IN  <<rows[m]>> \o OrderByIdAsc(rest)

\* SELECT * FROM runs ORDER BY id DESC
RECURSIVE OrderByIdDesc(_)
OrderByIdDesc(rows) ==
    IF rows = <<>>
    THEN <<>>
    ELSE LET m == CHOOSE j \in 1..Len(rows) :
                     \A k \in 1..Len(rows) : rows[j].id >= rows[k].id
             rest == [k \in 1..(Len(rows) - 1) |->
                         IF k < m THEN rows[k] ELSE rows[k + 1]]
         IN  <<rows[m]>> \o OrderByIdDesc(rest)

NoFrame == [loaded |-> FALSE, rows |-> <<>>]

Frame(rows) == [loaded |-> TRUE, rows |-> rows]

\* A mutant of save_run_returns: the new row's id is returned.
save_run_returns_id(row) == [called |-> TRUE, value |-> <<row.id>>]

\* save_run has no return statement: the call evaluates to None, written <<>>.
save_run_returns(row) == [called |-> TRUE, value |-> <<>>]

NotCalled == [called |-> FALSE, value |-> <<>>]

----------------------------------------------------------------------------
(* The history section's parsing loop *)

ParsedRow(row) ==
    LET t == json_loads(row.totals_json)
    IN  [timestamp |-> row.timestamp,
         annual_kg |-> t["grand_total_kg"],
         transport_kg |-> t["transport_total"],
         electricity_kg |-> t["electricity_total"],
         diet_kg |-> t["diet_total"],
         shopping_kg |-> t["shopping_total"]]

\* json.loads raises on a text that is no JSON; totals[...] raises KeyError on
\* a name the object lacks.
RowRaises(row) ==
    \/ ~row.totals_json.valid
    \/ \E k \in {"grand_total_kg", "transport_total", "electricity_total",
                 "diet_total", "shopping_total"} :
          k \notin DOMAIN json_loads(row.totals_json)

----------------------------------------------------------------------------
(* Inputs the sessions enter *)

\* The widgets' defaults (80 km, 1000 km flown, 10 km by bus, Global average,
\* 150 kWh, 0.3 kg beef, 0.5 kg chicken, NGN 150000 at 1500).
DefaultInputs ==
    [distance_unit |-> "km", distance |-> 800, flight_km_per_year |-> 10000,
     bus_km_per_week |-> 100, country_choice |-> "Global", custom_grid |-> 600,
     kwh_per_month |-> 1500, beef_kg_per_week |-> 3,
     chicken_kg_per_week |-> 5, currency |-> "NGN", spend |-> 1500000,
     fx_rate |-> 15000]

ZeroInputs ==
    [distance_unit |-> "km", distance |-> 0, flight_km_per_year |-> 0,
     bus_km_per_week |-> 0, country_choice |-> "Custom", custom_grid |-> 0,
     kwh_per_month |-> 0, beef_kg_per_week |-> 0,
     chicken_kg_per_week |-> 0, currency |-> "USD", spend |-> 0,
     fx_rate |-> 15000]

\* What the history sessions enter: the defaults, or a heavier profile in
\* miles and USD.
HistoryInputs ==
    {DefaultInputs,
     [DefaultInputs EXCEPT !.distance_unit = "miles", !.distance = 1200,
                           !.currency = "USD", !.spend = 2500,
                           !.country_choice = "Nigeria",
                           !.beef_kg_per_week = 6]}

\* What the calculation session enters: every rule's threshold and the value
\* just past it, in both distance units, under two profiles of the inputs no
\* rule reads (kilometres with the first, miles with the second); and all
\* zeros.
OtherInputs(u) ==
    IF u = "km"
    THEN [bus |-> 100, country |-> "Global", chicken |-> 5,
          currency |-> "NGN", spend |-> 1500000]
    ELSE [bus |-> 35, country |-> "Custom", chicken |-> 12,
          currency |-> "USD", spend |-> 2505]

CalcInputs ==
    {ZeroInputs} \cup
    { [distance_unit |-> u, distance |-> d, flight_km_per_year |-> f,
       bus_km_per_week |-> OtherInputs(u).bus,
       country_choice |-> OtherInputs(u).country,
       custom_grid |-> 650, kwh_per_month |-> k, beef_kg_per_week |-> b,
       chicken_kg_per_week |-> OtherInputs(u).chicken,
       currency |-> OtherInputs(u).currency,
       spend |-> OtherInputs(u).spend, fx_rate |-> 15000] :
      u \in {"km", "miles"}, d \in {1000, 1010, 1600, 1610},
      f \in {30000, 30010}, k \in {2000, 2010}, b \in {5, 6} }

----------------------------------------------------------------------------
(* One script run of a session *)

Ended == {"idle", "done", "failed"}

\* Sessions inside save_run.
Saving == {t \in Sessions : pc[t] \in {"save", "commit"}}

\* What each session enters: the first either profile, the second the
\* defaults.
EnteredBy(s) == IF s = "s1" THEN HistoryInputs ELSE {DefaultInputs}

\* A mutant of AfterSaveSection: save_run is called whatever the button says.
AlwaysSave(click) == "save"

\* if c1.button("Save this run"): save_run(...)
AfterSaveSection(click) == IF click THEN "save" ELSE "load"

Raise(s, e) ==
    /\ pc' = [pc EXCEPT ![s] = "failed"]
    /\ exc' = [exc EXCEPT ![s] = e]

\* The script runs from the top: widgets, calculations, summary, breakdown,
\* payloads, and the Save & Download section up to the button; without the
\* click the section goes on to its download buttons.  A run starts once the
\* connection a failed run left open has been freed.
Render(s, i, click) ==
    /\ pc[s] \in Ended
    /\ conn[s] = "closed"
    /\ inputs' = [inputs EXCEPT ![s] = i]
    /\ clicked' = [clicked EXCEPT ![s] = click]
    /\ totals' = [totals EXCEPT ![s] = totals_payload(i)]
    /\ pc' = [pc EXCEPT ![s] = AfterSaveSection(click)]
    /\ shown' = [shown EXCEPT ![s] =
                    {"summary", "breakdown"}
                    \cup (IF AfterSaveSection(click) = "load"
                          THEN {"downloads"} ELSE {})]
    /\ pending' = [pending EXCEPT ![s] = <<>>]
    /\ ret' = [ret EXCEPT ![s] = NotCalled]
    /\ history_df' = [history_df EXCEPT ![s] = NoFrame]
    /\ hist_df' = [hist_df EXCEPT ![s] = <<>>]
    /\ suggestions' = [suggestions EXCEPT ![s] = <<>>]
    /\ exc' = [exc EXCEPT ![s] = "none"]
    /\ UNCHANGED <<db, lock, conn, lastList>>

\* save_run up to the INSERT: conn = init_db(), then conn.execute("INSERT
\* INTO runs ...") with datetime.utcnow() = ts.  The INSERT takes the file's
\* write lock and holds it until the commit.
SaveInsert(s, ts) ==
    /\ pc[s] = "save"
    /\ MayWrite(s)
    /\ conn' = [conn EXCEPT ![s] = "open"]
    /\ db' = CreateTableIfNotExists(db)
    /\ lock' = s
    /\ pending' = [pending EXCEPT ![s] =
                      <<[id |-> NextRowId(CreateTableIfNotExists(db)),
                         timestamp |-> ts,
                         inputs_json |-> json_dumps(inputs_payload(inputs[s]),
                                                    INPUT_KEYS),
                         totals_json |-> json_dumps(totals[s], TOTAL_KEYS)]>>]
    /\ pc' = [pc EXCEPT ![s] = "commit"]
    /\ UNCHANGED <<inputs, clicked, totals, ret, history_df, hist_df,
                   suggestions, shown, exc, lastList>>

\* sqlite3.connect raises in init_db: the file cannot be opened.
SaveInitFail(s) ==
    /\ pc[s] = "save"
    /\ Raise(s, "storage")
    /\ UNCHANGED <<db, lock, inputs, clicked, totals, conn, pending, ret,
                   history_df, hist_df, suggestions, shown, lastList>>

\* init_db returns, and the INSERT waits for another connection's write lock
\* until the busy timeout of sqlite3.connect (5 s by default), then raises
\* "database is locked".  save_run never reaches conn.close().
SaveInsertBusy(s) ==
    /\ pc[s] = "save"
    /\ db.exists
    /\ lock \notin {NoSession, s}
    /\ conn' = [conn EXCEPT ![s] = "open"]
    /\ Raise(s, "locked")
    /\ UNCHANGED <<db, lock, inputs, clicked, totals, pending, ret,
                   history_df, hist_df, suggestions, shown, lastList>>

\* init_db returns, and the INSERT raises for the store's own reasons (a
\* read-only file, a full disk).  save_run never reaches conn.close().
SaveInsertFail(s) ==
    /\ pc[s] = "save"
    /\ db.exists
    /\ conn' = [conn EXCEPT ![s] = "open"]
    /\ Raise(s, "storage")
    /\ UNCHANGED <<db, lock, inputs, clicked, totals, pending, ret,
                   history_df, hist_df, suggestions, shown, lastList>>

\* conn.commit(); conn.close(); then st.success and the download buttons.
SaveCommit(s) ==
    /\ pc[s] = "commit"
    /\ db' = InsertRow(db, pending[s][1])
    /\ lock' = IF lock = s THEN NoSession ELSE lock
    /\ conn' = [conn EXCEPT ![s] = "closed"]
    /\ ret' = [ret EXCEPT ![s] = save_run_returns(pending[s][1])]
    /\ shown' = [shown EXCEPT ![s] = @ \cup {"saved", "downloads"}]
    /\ pc' = [pc EXCEPT ![s] = "load"]
    /\ lastList' = NoFrame
    /\ UNCHANGED <<inputs, clicked, totals, pending, history_df, hist_df,
                   suggestions, exc>>

\* conn.commit() raises: the transaction is rolled back and its lock given
\* up.  save_run never reaches conn.close().
SaveCommitFail(s) ==
    /\ pc[s] = "commit"
    /\ lock' = IF lock = s THEN NoSession ELSE lock
    /\ pending' = [pending EXCEPT ![s] = <<>>]
    /\ Raise(s, "storage")
    /\ UNCHANGED <<db, inputs, clicked, totals, conn, ret, history_df,
                   hist_df, suggestions, shown, lastList>>

\* load_runs: conn = init_db(); df = pd.read_sql_query(...); conn.close();
\* return df
LoadRuns(s) ==
    /\ pc[s] = "load"
    /\ db.exists \/ MayWrite(s)
    /\ db' = CreateTableIfNotExists(db)
    /\ history_df' = [history_df EXCEPT ![s] =
                         Frame(OrderByIdDesc(CreateTableIfNotExists(db).rows))]
    /\ lastList' = Frame(OrderByIdDesc(CreateTableIfNotExists(db).rows))
    /\ pc' = [pc EXCEPT ![s] = "history"]
    /\ UNCHANGED <<lock, inputs, clicked, totals, conn, pending, ret,
                   hist_df, suggestions, shown, exc>>

\* sqlite3.connect raises in init_db: the file cannot be opened.
LoadInitFail(s) ==
    /\ pc[s] = "load"
    /\ Raise(s, "storage")
    /\ UNCHANGED <<db, lock, inputs, clicked, totals, conn, pending, ret,
                   history_df, hist_df, suggestions, shown, lastList>>

\* init_db returns, and pd.read_sql_query raises.  load_runs never reaches
\* conn.close().
LoadSelectFail(s) ==
    /\ pc[s] = "load"
    /\ db.exists
    /\ conn' = [conn EXCEPT ![s] = "open"]
    /\ Raise(s, "storage")
    /\ UNCHANGED <<db, lock, inputs, clicked, totals, pending, ret,
                   history_df, hist_df, suggestions, shown, lastList>>

\* The History section's loop over history_df, then the Suggestions section.
\* The loop has no try: the first row that raises ends the script run.
HistoryAndSuggestions(s) ==
    /\ pc[s] = "history"
    /\ LET rows == history_df[s].rows
       IN  IF \E j \in 1..Len(rows) : RowRaises(rows[j])
           THEN /\ Raise(s, "parse")
                /\ UNCHANGED <<hist_df, suggestions, shown>>
           ELSE /\ hist_df' = [hist_df EXCEPT ![s] =
                                  [j \in 1..Len(rows) |-> ParsedRow(rows[j])]]
                /\ suggestions' = [suggestions EXCEPT ![s] =
                                      Suggestions(inputs[s])]
                /\ shown' = [shown EXCEPT ![s] =
                                @ \cup {"history", "suggestions"}]
                /\ pc' = [pc EXCEPT ![s] = "done"]
                /\ UNCHANGED exc
    /\ UNCHANGED <<db, lock, inputs, clicked, totals, conn, pending, ret,
                   history_df, lastList>>

\* The connection a failed save_run or load_runs left open is closed when the
\* interpreter frees it.
Collect(s) ==
    /\ pc[s] = "failed"
    /\ conn[s] = "open"
    /\ conn' = [conn EXCEPT ![s] = "closed"]
    /\ UNCHANGED <<db, lock, pc, inputs, clicked, totals, pending, ret,
                   history_df, hist_df, suggestions, shown, exc, lastList>>

----------------------------------------------------------------------------
(* Specifications *)

InitSessions ==
    /\ lock = NoSession
    /\ pc = [s \in Sessions |-> "idle"]
    /\ inputs = [s \in Sessions |-> DefaultInputs]
    /\ clicked = [s \in Sessions |-> FALSE]
    /\ totals = [s \in Sessions |-> totals_payload(DefaultInputs)]
    /\ conn = [s \in Sessions |-> "closed"]
    /\ pending = [s \in Sessions |-> <<>>]
    /\ ret = [s \in Sessions |-> NotCalled]
    /\ history_df = [s \in Sessions |-> NoFrame]
    /\ hist_df = [s \in Sessions |-> <<>>]
    /\ suggestions = [s \in Sessions |-> <<>>]
    /\ shown = [s \in Sessions |-> {}]
    /\ exc = [s \in Sessions |-> "none"]
    /\ lastList = NoFrame

\* No history file yet.
Init ==
    /\ db = NoTable
    /\ InitSessions

\* The Save button is clicked only while the rows held and the saves under
\* way stay below cap.
Clicks(cap) ==
    IF Len(db.rows) + Cardinality(Saving) < cap THEN BOOLEAN ELSE {FALSE}

Step(s, cap) ==
    \/ \E i \in EnteredBy(s), click \in Clicks(cap) : Render(s, i, click)
    \/ \E ts \in 1..MaxTime : SaveInsert(s, ts)
    \/ SaveInitFail(s)
    \/ SaveInsertBusy(s)
    \/ SaveInsertFail(s)
    \/ SaveCommit(s)
    \/ SaveCommitFail(s)
    \/ LoadRuns(s)
    \/ LoadInitFail(s)
    \/ LoadSelectFail(s)
    \/ HistoryAndSuggestions(s)
    \/ Collect(s)

Next == \E s \in Sessions : Step(s, MaxRuns)

\* Two sessions, the history file shared, the store failing where it may.
Spec == Init /\ [][Next]_vars

\* One session, no store failure, the inputs around every threshold; the
\* Save button is clicked only while the history is empty.
NextCalc ==
    \/ \E i \in CalcInputs, click \in Clicks(1) : Render("s1", i, click)
    \/ SaveInsert("s1", 1)
    \/ SaveCommit("s1")
    \/ LoadRuns("s1")
    \/ HistoryAndSuggestions("s1")

SpecCalc == Init /\ [][NextCalc]_vars

\* Rows of a history file the app finds but did not write as it writes them
\* now: a totals_json that is no JSON, and one without grand_total_kg.
ForeignRows ==
    { [id |-> 1, timestamp |-> 1,
       inputs_json |-> json_dumps(inputs_payload(DefaultInputs), INPUT_KEYS),
       totals_json |-> t] :
      t \in { [valid |-> FALSE, members |-> <<>>],
              json_dumps(totals_payload(DefaultInputs),
                         <<"transport_total", "electricity_total",
                           "diet_total", "shopping_total">>) } }

\* The history file exists already and holds one such row.
InitForeign ==
    /\ db \in {[exists |-> TRUE, rows |-> <<r>>, seq |-> 1] : r \in ForeignRows}
    /\ InitSessions

\* The sessions may add MaxRuns rows to the one found.
NextForeign == \E s \in Sessions : Step(s, MaxRuns + 1)

SpecForeign == InitForeign /\ [][NextForeign]_vars

----------------------------------------------------------------------------
(* Properties *)

\* A step in which session s's load_runs returns.
LoadReturns(s) == pc[s] = "load" /\ pc'[s] = "history"

\* A step in which session s's save_run commits and returns.
SaveReturns(s) == pc[s] = "commit" /\ pc'[s] = "load"

Holds(rows, r) == \E j \in 1..Len(rows) : rows[j] = r

\* C1: load_runs returns every stored record exactly once, by strictly
\* descending id; every save's id is greater than every id stored before it;
\* with no record stored load_runs can return, and returns the empty
\* sequence.
C1_ListAllDescending ==
    /\ [][\A s \in Sessions :
            LoadReturns(s) =>
              LET df == history_df'[s].rows
              IN  /\ history_df'[s].loaded
                  /\ Len(df) = Len(db.rows)
                  /\ \A j \in 1..Len(db.rows) :
                        Cardinality({k \in 1..Len(df) : df[k] = db.rows[j]}) = 1
                  /\ \A k \in 1..(Len(df) - 1) : df[k].id > df[k + 1].id
                  /\ db.rows = <<>> => df = <<>>]_vars
    /\ [][\A s \in Sessions :
            SaveReturns(s) =>
              /\ \A j \in 1..Len(db.rows) : db.rows[j].id < pending[s][1].id
              /\ Holds(db'.rows, pending[s][1])]_vars
    /\ [](\A s \in Sessions :
            pc[s] = "load" /\ db.rows = <<>> => ENABLED LoadRuns(s))

\* Two saves in sequence, then a listing: ids 2 and 1, in that order.
C1_Witness ==
    \E s \in Sessions :
        /\ pc[s] = "history"
        /\ Len(db.rows) = 2
        /\ Len(history_df[s].rows) = 2
        /\ history_df[s].rows[1].id = 2
        /\ history_df[s].rows[2].id = 1
        /\ history_df[s].rows[1] = db.rows[2]

\* C2: the history is append-only.  No step changes or removes a stored
\* row; the rows change only by one row appended by the save_run of a run
\* whose Save button was clicked; no step of a run without the click changes
\* them.
C2_AppendOnly ==
    [][/\ \A j \in 1..Len(db.rows) :
             j <= Len(db'.rows) /\ db'.rows[j] = db.rows[j]
       /\ db'.rows # db.rows =>
             \E s \in Sessions :
                 /\ clicked[s]
                 /\ SaveReturns(s)
                 /\ db'.rows = Append(db.rows, pending[s][1])
       /\ \A s \in Sessions :
             (~clicked'[s] /\ pc'[s] # pc[s]) =>
                 (db'.rows = db.rows /\ pc'[s] \notin {"save", "commit"})]_vars

\* Two rows stored, and a run without the click has gone through to its end.
C2_Witness ==
    \E s \in Sessions :
        /\ Len(db.rows) = 2
        /\ db.rows[1].timestamp # db.rows[2].timestamp
        /\ pc[s] = "done"
        /\ ~clicked[s]
        /\ Len(history_df[s].rows) = 2

\* C3: a failure of the history store is not fatal to the page: a run that
\* has ended has rendered the results, the breakdown, the downloads and the
\* suggestions.
C3_RenderSurvivesStoreFailure ==
    \A s \in Sessions :
        pc[s] \in {"done", "failed"} =>
            {"summary", "breakdown", "downloads", "suggestions"} \subseteq shown[s]

WellFormed(rows) == SelectSeq(rows, LAMBDA r : ~RowRaises(r))

\* C4: a stored row whose totals_json cannot be parsed is skipped: once the
\* history section is over for a frame with a well-formed row in it, the
\* listing holds every well-formed row of the frame, and the run has not
\* been ended by a malformed one.
C4_MalformedRecordSkipped ==
    \A s \in Sessions :
        (/\ history_df[s].loaded
         /\ pc[s] \in {"done", "failed"}
         /\ WellFormed(history_df[s].rows) # <<>>) =>
            /\ exc[s] # "parse"
            /\ hist_df[s] =
                  [j \in 1..Len(WellFormed(history_df[s].rows)) |->
                      ParsedRow(WellFormed(history_df[s].rows)[j])]

\* The four subtotals and their sum, from the normalized inputs p, by the
\* formulas as the specification writes them (factors in thousandths).
FormulasHold(p, t) ==
    /\ t["transport_total"] =
          p["car_per_week_kg"] * 52 + p["flight_km_per_year"] * 115
          + p["bus_km_per_week"] * 52 * 89
    /\ t["electricity_total"] =
          p["kwh_per_month"] * 12 * p["selected_grid_factor"]
    /\ t["diet_total"] =
          p["beef_kg_per_week"] * 52 * 27000
          + p["chicken_kg_per_week"] * 52 * 6900
    /\ t["shopping_total"] = p["spend_usd"] * 12 * 600
    /\ t["grand_total_kg"] =
          t["transport_total"] + t["electricity_total"] + t["diet_total"]
          + t["shopping_total"]

\* C5: the grand total of a run is the sum of its four subtotals, each by its
\* formula, and so are the totals of every stored row, read back from its
\* JSON texts.
C5_GrandTotalIsSum ==
    /\ \A s \in Sessions :
          FormulasHold(inputs_payload(inputs[s]), totals[s])
    /\ \A j \in 1..Len(db.rows) :
          FormulasHold(json_loads(db.rows[j].inputs_json),
                       json_loads(db.rows[j].totals_json))

\* A run in miles and USD with every category above zero is stored.
C5_Witness ==
    /\ pc["s1"] = "done"
    /\ Len(db.rows) = 1
    /\ json_loads(db.rows[1].inputs_json)["distance_unit"] = "miles"
    /\ json_loads(db.rows[1].totals_json)["shopping_total"] = 2505 * 12 * 600
    /\ json_loads(db.rows[1].totals_json)["grand_total_kg"] >
          json_loads(db.rows[1].totals_json)["transport_total"]
          + json_loads(db.rows[1].totals_json)["electricity_total"]
          + json_loads(db.rows[1].totals_json)["diet_total"]

\* Whether a rule fires on the raw inputs, as the specification states it.
Fires(a, i) ==
    CASE a = ADVICE_BEEF -> i.beef_kg_per_week > 5
      [] a = ADVICE_CAR -> \/ i.distance_unit = "miles" /\ i.distance > 1000
                           \/ i.distance_unit = "km" /\ i.distance > 1600
      [] a = ADVICE_POWER -> i.kwh_per_month > 2000
      [] a = ADVICE_FLIGHT -> i.flight_km_per_year > 30000

Advisories == <<ADVICE_BEEF, ADVICE_CAR, ADVICE_POWER, ADVICE_FLIGHT>>

\* C6: the suggestions written are the advisories whose rule fires, in the
\* order beef, car distance, electricity, flight; the fallback message alone
\* when none fires, and never beside an advisory.
C6_SuggestionsAreFiredRules ==
    \A s \in Sessions :
        "suggestions" \in shown[s] =>
            LET fired == SelectSeq(Advisories, LAMBDA a : Fires(a, inputs[s]))
                got == suggestions[s]
            IN  /\ fired # <<>> => got = fired
                /\ fired = <<>> => got = <<ADVICE_NONE>>
                /\ (\E k \in 1..Len(got) : got[k] = ADVICE_NONE) => Len(got) = 1

\* 101 miles a week: above the miles threshold, below the km one.
C6_Witness ==
    /\ pc["s1"] = "done"
    /\ inputs["s1"].distance_unit = "miles"
    /\ inputs["s1"].distance = 1010
    /\ inputs["s1"].beef_kg_per_week = 5
    /\ suggestions["s1"] = <<ADVICE_CAR, ADVICE_FLIGHT>>

\* C7: load_runs changes no stored row, whether it returns or raises, and
\* returns the very frame the load_runs before it returned when no save_run
\* has committed in between.
C7_ListingIdempotent ==
    [][\A s \in Sessions :
          /\ (pc[s] = "load" /\ pc'[s] # "load") => db'.rows = db.rows
          /\ (LoadReturns(s) /\ lastList.loaded) =>
                history_df'[s] = lastList]_vars

\* Both sessions hold the same two-row frame: two listings, no save between.
C7_Witness ==
    /\ lastList.loaded
    /\ Len(lastList.rows) = 2
    /\ \A s \in Sessions : pc[s] = "history" /\ history_df[s] = lastList

\* C8 as claimed: save_run returns the id of the row it wrote.
C8_SaveRunReturnsId ==
    \A s \in Sessions :
        ret[s].called => ret[s].value = <<pending[s][1].id>>

\* C8 as amended: save_run returns None; the row it wrote is stored under the
\* id the table assigned to it, which no other stored row has.
C8_SaveRunReturnsNone ==
    \A s \in Sessions :
        ret[s].called =>
            /\ ret[s].value = <<>>
            /\ pending[s] # <<>>
            /\ Cardinality({j \in 1..Len(db.rows) :
                               db.rows[j].id = pending[s][1].id}) = 1
            /\ Holds(db.rows, pending[s][1])

\* A second save has returned: its row has id 2.
C8_Witness ==
    \E s \in Sessions :
        /\ ret[s].called
        /\ pc[s] = "load"
        /\ pending[s][1].id = 2
        /\ db.rows[2] = pending[s][1]

\* The save_run of session s is over and no failure of the store itself
\* ended it.
SaveOver(s) ==
    /\ clicked[s]
    /\ pc[s] \notin {"save", "commit"}
    /\ ~(exc[s] = "storage" /\ ~ret[s].called)

\* C9 as claimed: of two sessions' saves neither fails nor is lost: both have
\* returned and both rows are stored, under distinct ids.
C9_BothSavesPersist ==
    \A s, t \in Sessions :
        (s # t /\ SaveOver(s) /\ SaveOver(t)) =>
            /\ ret[s].called /\ ret[t].called
            /\ Holds(db.rows, pending[s][1]) /\ Holds(db.rows, pending[t][1])
            /\ pending[s][1].id # pending[t][1].id

\* C9 as amended: every save that returns has its row stored, and two of
\* them under distinct ids; a save raises "database is locked" only while the
\* other session holds the write lock between its INSERT and its commit, and
\* then stores nothing.
C9_SavesThatReturnPersist ==
    /\ [](\A s, t \in Sessions :
            (s # t /\ ret[s].called /\ ret[t].called) =>
                /\ Holds(db.rows, pending[s][1])
                /\ Holds(db.rows, pending[t][1])
                /\ pending[s][1].id # pending[t][1].id)
    /\ [](\A s \in Sessions :
            exc[s] = "locked" => (pending[s] = <<>> /\ ~ret[s].called))
    /\ [][\A s \in Sessions :
            (exc'[s] = "locked" /\ exc[s] # "locked") =>
                /\ db'.rows = db.rows
                /\ \E t \in Sessions \ {s} : pc[t] = "commit" /\ lock = t]_vars

\* Both sessions' saves have returned and both rows are stored.
C9_Witness ==
    /\ \A s \in Sessions : ret[s].called /\ pc[s] = "load"
    /\ pending["s1"][1].id # pending["s2"][1].id
    /\ Len(db.rows) = 2

\* C10: outside save_run and load_runs a session holds no open connection.
C10_NoConnectionLeftOpen ==
    \A s \in Sessions : pc[s] # "commit" => conn[s] = "closed"

====
